---------------------------- MODULE Spec2Model ----------------------------
(***************************************************************************)
(* Model of the score pipeline of get-pgscatalog-polygenic-scores:         *)
(* the paginated fetcher, the summary aggregator, the localforage cache    *)
(* and its freshness policy, and the loadScores() orchestrator of          *)
(* src/js/loadScores.mjs.                                                  *)
(*                                                                         *)
(* Conventions.                                                            *)
(*  - A JavaScript value read from JSON is a record [t, n, s]: t is its    *)
(*    type tag, n its number (t = "num"), s its characters (t = "str", a   *)
(*    sequence of one-character strings).                                  *)
(*  - Time is counted in whole days since 1970-01-01 (the local time zone  *)
(*    is UTC and every instant is a midnight), so a Date is a day number   *)
(*    and an ISO string is the civil date [y, m, d] with m in 1..12.       *)
(*  - A number computed by the aggregator is a reduced fraction            *)
(*    [null, num, den]; null = TRUE stands for JavaScript's null.          *)
(***************************************************************************)
EXTENDS Integers, Sequences, FiniteSets, TLC

(***************************************************************************)
(* Bounds of the model.                                                    *)
(***************************************************************************)
\* loadScores() calls made in one behaviour
MaxCalls == 2
\* records the remote holds (the pages served to one fetch hold at most this many)
MaxRecords == 5
\* days the clock may advance past FirstDay
MaxDay == 130
\* days one Tick advances the clock
TickDays == 60
\* days between one freshness check and the next of the same savedAt
MaxLater == 3
\* records the remote's fixed collection may hold
MaxCollection == 201
\* days after FirstDay at which the freshness check is asked
FreshDays == 400
\* days around "three months ago" from which the freshness check draws savedAt
FreshWindow == 8
\* score records with pairwise distinct traits in an aggregator input
MaxTraits == 12
\* further score records, of any shape, in an aggregator input
MaxExtras == 2
\* trait records in an aggregator input
MaxTraitRecords == 3

(***************************************************************************)
(* JavaScript values.                                                      *)
(***************************************************************************)
Undefined == [t |-> "undefined", n |-> 0, s |-> <<>>]
Null == [t |-> "null", n |-> 0, s |-> <<>>]
Num(k) == [t |-> "num", n |-> k, s |-> <<>>]
NaN == [t |-> "nan", n |-> 0, s |-> <<>>]
Str(chars) == [t |-> "str", n |-> 0, s |-> chars]
False == [t |-> "bool", n |-> 0, s |-> <<>>]

\* x == null (loose): undefined or null
IsNullish(x) == x.t \in {"undefined", "null"}

\* a ?? b
Coalesce(a, b) == IF IsNullish(a) THEN b ELSE a

Digits == {"0", "1", "2", "3", "4", "5", "6", "7", "8", "9"}

DigitVal(c) ==
    CASE c = "0" -> 0 [] c = "1" -> 1 [] c = "2" -> 2 [] c = "3" -> 3
      [] c = "4" -> 4 [] c = "5" -> 5 [] c = "6" -> 6 [] c = "7" -> 7
      [] c = "8" -> 8 [] c = "9" -> 9

RECURSIVE DecimalValue(_)
DecimalValue(chars) ==
    IF chars = <<>> THEN 0
    ELSE 10 * DecimalValue(SubSeq(chars, 1, Len(chars) - 1)) + DigitVal(chars[Len(chars)])

RECURSIVE TrimLeft(_)
TrimLeft(chars) ==
    IF chars # <<>> /\ Head(chars) = " " THEN TrimLeft(Tail(chars)) ELSE chars

RECURSIVE TrimRight(_)
TrimRight(chars) ==
    IF chars # <<>> /\ chars[Len(chars)] = " "
    THEN TrimRight(SubSeq(chars, 1, Len(chars) - 1))
    ELSE chars

\* Number(x) for the values the model draws: numbers, undefined, null and
\* strings of digits, letters and blanks (StringToNumber: blanks are trimmed,
\* the empty string is 0, a string of decimal digits is its value, any other
\* string is NaN).
ToNumber(x) ==
    CASE x.t = "num" -> x
      [] x.t = "nan" -> NaN
      [] x.t = "undefined" -> NaN
      [] x.t = "null" -> Num(0)
      [] x.t = "str" ->
           LET trimmed == TrimRight(TrimLeft(x.s))
           IN  IF trimmed = <<>> THEN Num(0)
               ELSE IF \A i \in 1..Len(trimmed) : trimmed[i] \in Digits
                    THEN Num(DecimalValue(trimmed))
                    ELSE NaN

\* Number.isFinite(v)
IsFinite(v) == v.t = "num"

(***************************************************************************)
(* Dates: ECMAScript's day arithmetic (Day Number, MakeDay, YearFromTime,   *)
(* MonthFromTime, DateFromTime), on whole days.                            *)
(***************************************************************************)
IsLeap(y) == (y % 4 = 0 /\ y % 100 # 0) \/ y % 400 = 0

DaysInMonth(y, m0) ==
    CASE m0 = 1 -> IF IsLeap(y) THEN 29 ELSE 28
      [] m0 \in {3, 5, 8, 10} -> 30
      [] OTHER -> 31

DayFromYear(y) ==
    365 * (y - 1970) + ((y - 1969) \div 4) - ((y - 1901) \div 100) + ((y - 1601) \div 400)

RECURSIVE DaysBeforeMonth(_, _)
DaysBeforeMonth(y, m0) ==
    IF m0 = 0 THEN 0 ELSE DaysBeforeMonth(y, m0 - 1) + DaysInMonth(y, m0 - 1)

\* MakeDay(year, month, date): month is 0-based and may lie outside 0..11, date
\* may lie outside the month; both carry over.
MakeDay(y, m0, d) ==
    LET ym == y + (m0 \div 12)
        mn == m0 % 12
    IN  DayFromYear(ym) + DaysBeforeMonth(ym, mn) + d - 1

YearFromDay(t) ==
    CHOOSE y \in (1970 + (t \div 366))..(1970 + (t \div 365)) :
        DayFromYear(y) <= t /\ t < DayFromYear(y + 1)

\* getMonth(): 0-based
MonthFromDay(t) ==
    LET y == YearFromDay(t)
    IN  CHOOSE m0 \in 0..11 :
            /\ MakeDay(y, m0, 1) <= t
            /\ t < MakeDay(y, m0 + 1, 1)

\* getDate()
DateFromDay(t) == t - MakeDay(YearFromDay(t), MonthFromDay(t), 1) + 1

toISOStringZeroBasedMonth(t) ==
    [t |-> "str", n |-> 0,
     s |-> <<"iso", YearFromDay(t), MonthFromDay(t), DateFromDay(t)>>]

\* new Date().toISOString(): "YYYY-MM-DDT..." with the month 1-based
toISOString(t) ==
    [t |-> "str", n |-> 0,
     s |-> <<"iso", YearFromDay(t), MonthFromDay(t) + 1, DateFromDay(t)>>]

\* new Date(string).getTime(): the day number, or NaN for a string that is no date
DateParse(x) ==
    IF /\ x.t = "str"
       /\ Len(x.s) = 4
       /\ x.s[1] = "iso"
       /\ x.s[3] \in 1..12
       /\ x.s[4] \in 1..DaysInMonth(x.s[2], x.s[3] - 1)
    THEN Num(MakeDay(x.s[2], x.s[3] - 1, x.s[4]))
    ELSE NaN

\* !x for the values savedAt can take
IsFalsy(x) ==
    \/ IsNullish(x)
    \/ x.t = "nan"
    \/ (x.t = "num" /\ x.n = 0)
    \/ (x.t = "str" /\ x.s = <<>>)

\* cutoff = new Date(); cutoff.setMonth(cutoff.getMonth() - months)
CutoffDay(today, months) ==
    MakeDay(YearFromDay(today), MonthFromDay(today) - months, DateFromDay(today))

isCacheWithinMonthsStrict(savedAt, months, today) ==
    IF IsFalsy(savedAt) THEN FALSE
    ELSE LET savedDate == DateParse(savedAt)
         IN  IF savedDate.t = "nan" THEN FALSE
             ELSE savedDate.n > CutoffDay(today, months)

\* isCacheWithinMonths(savedAt, months) evaluated when the clock shows `today`
isCacheWithinMonths(savedAt, months, today) ==
    IF IsFalsy(savedAt) THEN FALSE
    ELSE LET savedDate == DateParse(savedAt)
         IN  IF savedDate.t = "nan" THEN FALSE
             ELSE savedDate.n >= CutoffDay(today, months)

(***************************************************************************)
(* The summary aggregator.                                                 *)
(***************************************************************************)
\* entries kept by topTraits: .slice(0, 10)
TopN == 10

RECURSIVE Gcd(_, _)
Gcd(a, b) == IF b = 0 THEN a ELSE Gcd(b, a % b)

Abs(a) == IF a < 0 THEN 0 - a ELSE a

RNull == [null |-> TRUE, num |-> 0, den |-> 1]

\* the number num/den (den > 0), reduced
Rat(num, den) ==
    LET g == Gcd(Abs(num), den)
    IN  [null |-> FALSE, num |-> num \div g, den |-> den \div g]

quantileLowerNeighbour(sorted, qn, qd) ==
    IF Len(sorted) = 0 THEN RNull
    ELSE Rat(sorted[(((Len(sorted) - 1) * qn) \div qd) + 1], 1)

\* quantile(sorted, q) of loadPgs.js: position, base and rest are computed
\* before the empty list is looked at
quantileLoadPgs(sorted, qn, qd) ==
    LET pos == (Len(sorted) - 1) * qn
        base == pos \div qd
        rest == pos % qd
    IN  IF Len(sorted) = 0 THEN RNull
        ELSE IF base + 2 > Len(sorted) THEN Rat(sorted[base + 1], 1)
             ELSE Rat(sorted[base + 1] * qd + rest * (sorted[base + 2] - sorted[base + 1]), qd)

\* quantile(sorted, q) with q = qn/qd; sorted[k] of the code is sorted[k + 1] here
quantile(sorted, qn, qd) ==
    IF Len(sorted) = 0 THEN RNull
    ELSE LET pos == (Len(sorted) - 1) * qn
             base == pos \div qd
             rest == pos % qd
         IN  IF base + 2 > Len(sorted) THEN Rat(sorted[base + 1], 1)
             ELSE Rat(sorted[base + 1] * qd + rest * (sorted[base + 2] - sorted[base + 1]), qd)

RECURSIVE InsertAscending(_, _)
InsertAscending(sorted, v) ==
    IF sorted = <<>> THEN <<v>>
    ELSE IF v < Head(sorted) THEN <<v>> \o sorted
         ELSE <<Head(sorted)>> \o InsertAscending(Tail(sorted), v)

\* .sort((a, b) => a - b)
RECURSIVE SortAscending(_)
SortAscending(nums) ==
    IF nums = <<>> THEN <<>>
    ELSE InsertAscending(SortAscending(SubSeq(nums, 1, Len(nums) - 1)), nums[Len(nums)])

RECURSIVE InsertByCountDesc(_, _)
InsertByCountDesc(sorted, e) ==
    IF sorted = <<>> THEN <<e>>
    ELSE IF e[2] > Head(sorted)[2] THEN <<e>> \o sorted
         ELSE <<Head(sorted)>> \o InsertByCountDesc(Tail(sorted), e)

\* .sort((a, b) => b[1] - a[1]): stable, so ties keep their insertion order
RECURSIVE SortByCountDesc(_)
SortByCountDesc(entries) ==
    IF entries = <<>> THEN <<>>
    ELSE InsertByCountDesc(SortByCountDesc(SubSeq(entries, 1, Len(entries) - 1)),
                           entries[Len(entries)])

RECURSIVE InsertByYearAsc(_, _)
InsertByYearAsc(sorted, e) ==
    IF sorted = <<>> THEN <<e>>
    ELSE IF DecimalValue(e[1].s) < DecimalValue(Head(sorted)[1].s) THEN <<e>> \o sorted
         ELSE <<Head(sorted)>> \o InsertByYearAsc(Tail(sorted), e)

\* .sort((a, b) => Number(a[0]) - Number(b[0]))
RECURSIVE SortByYearAsc(_)
SortByYearAsc(entries) ==
    IF entries = <<>> THEN <<>>
    ELSE InsertByYearAsc(SortByYearAsc(SubSeq(entries, 1, Len(entries) - 1)),
                         entries[Len(entries)])

\* map.set(key, (map.get(key) ?? 0) + 1) on a Map kept as its entries <<key, count>>
\* in insertion order
MapInc(entries, key) ==
    IF \E i \in 1..Len(entries) : entries[i][1] = key
    THEN [i \in 1..Len(entries) |->
            IF entries[i][1] = key THEN <<key, entries[i][2] + 1>> ELSE entries[i]]
    ELSE Append(entries, <<key, 1>>)

\* .slice(0, n)
Slice(seq, n) == SubSeq(seq, 1, IF Len(seq) < n THEN Len(seq) ELSE n)

\* scores.map((item) => Number(item.variants_number)).filter(Number.isFinite)
RECURSIVE FiniteVariants(_)
FiniteVariants(scores) ==
    IF scores = <<>> THEN <<>>
    ELSE LET v == ToNumber(Head(scores).variants_number)
         IN  (IF IsFinite(v) THEN <<v.n>> ELSE <<>>) \o FiniteVariants(Tail(scores))

RECURSIVE CountByTrait(_)
CountByTrait(scores) ==
    IF scores = <<>> THEN <<>>
    ELSE MapInc(CountByTrait(SubSeq(scores, 1, Len(scores) - 1)),
                Coalesce(scores[Len(scores)].trait_reported, Str(<<"N", "R">>)))

\* (score.date_release ?? "").match(/^(\d{4})/) finds a year
HasYear(score) ==
    LET d == Coalesce(score.date_release, Str(<<>>))
    IN  /\ Len(d.s) >= 4
        /\ \A i \in 1..4 : d.s[i] \in Digits

RECURSIVE CountByReleaseYear(_)
CountByReleaseYear(scores) ==
    IF scores = <<>> THEN <<>>
    ELSE LET before == CountByReleaseYear(SubSeq(scores, 1, Len(scores) - 1))
             score == scores[Len(scores)]
         IN  IF HasYear(score)
             THEN MapInc(before, Str(SubSeq(score.date_release.s, 1, 4)))
             ELSE before

RECURSIVE Sum(_)
Sum(nums) == IF nums = <<>> THEN 0 ELSE Head(nums) + Sum(Tail(nums))

\* computeSummary throws a TypeError: .match is called on a date_release that
\* is neither nullish nor a string
computeSummaryThrows(scores) ==
    \E i \in 1..Len(scores) :
        Coalesce(scores[i].date_release, Str(<<>>)).t # "str"

\* variants.length ? variants.reduce((sum, n) => sum + n, 0) / variants.length : null
Mean(variants) ==
    IF Len(variants) # 0 THEN Rat(Sum(variants), Len(variants)) ELSE RNull

computeSummary(scores) ==
    LET variants == SortAscending(FiniteVariants(scores))
        byTrait == CountByTrait(scores)
        byReleaseYear == CountByReleaseYear(scores)
    IN  [totalScores |-> Len(scores),
         uniqueTraits |-> Len(byTrait),
         variants |->
            [min |-> IF variants = <<>> THEN RNull ELSE Rat(variants[1], 1),
             max |-> IF variants = <<>> THEN RNull ELSE Rat(variants[Len(variants)], 1),
             mean |-> Mean(variants),
             median |-> quantile(variants, 1, 2)],
         topTraits |-> Slice(SortByCountDesc(byTrait), TopN),
         releaseYears |-> SortByYearAsc(byReleaseYear)]

(***************************************************************************)
(* computeSummary of loadTraits.js.                                        *)
(***************************************************************************)
Arr(items) == [t |-> "array", items |-> items]

\* a trait record with the given trait_categories field
TraitObject(cats) == [t |-> "object", trait_categories |-> cats]

\* Array.isArray(trait?.trait_categories) && trait.trait_categories.length
\*     ? trait.trait_categories : ["NR"]
CategoriesOf(trait) ==
    LET cats == IF IsNullish(trait) THEN Undefined ELSE trait.trait_categories
    IN  IF cats.t = "array" /\ Len(cats.items) # 0
        THEN cats.items
        ELSE <<Str(<<"N", "R">>)>>

\* for (const category of categories) byCategory.set(category, ... + 1)
RECURSIVE MapIncAll(_, _)
MapIncAll(entries, keys) ==
    IF keys = <<>> THEN entries
    ELSE MapIncAll(MapInc(entries, Head(keys)), Tail(keys))

RECURSIVE CountByCategory(_)
CountByCategory(traits) ==
    IF traits = <<>> THEN <<>>
    ELSE MapIncAll(CountByCategory(SubSeq(traits, 1, Len(traits) - 1)),
                   CategoriesOf(traits[Len(traits)]))

computeSummaryTraits(traits) ==
    LET byCategory == CountByCategory(traits)
    IN  [traits |-> traits,
         totaltraits |-> Len(traits),
         totalCategories |-> Len(byCategory),
         categories |-> SortByCountDesc(byCategory)]

(***************************************************************************)
(* The remote REST endpoint and one page of the paginated fetcher.         *)
(***************************************************************************)
\* the pageSize loadScores() passes to fetchAllScores (200 in the code), scaled down
PageSize == 2
\* data sets the remote serves over time (catalog releases)
NumCatalogs == 2

Min(a, b) == IF a < b THEN a ELSE b

\* The i-th score record of release `cat`, as the object built from the response
\* to call `g` (gen is the identity of that object: two calls never share one).
\* Release 1 is well formed; in release 2 the second record carries a numeric
\* date_release and others lack fields.
RemoteRecord(cat, g, i) ==
    [id |-> i,
     gen |-> g,
     variants_number |->
        IF cat = 1 THEN Num(10 * i)
        ELSE CASE i % 3 = 0 -> Null
               [] i % 3 = 1 -> Num(7)
               [] OTHER -> Undefined,
     trait_reported |->
        IF i % 2 = 1 THEN Str(<<"a">>)
        ELSE IF cat = 1 THEN Str(<<"b">>) ELSE Undefined,
     date_release |->
        IF cat = 2 /\ i = 2 THEN Num(2020)
        ELSE IF i % 2 = 1 THEN Str(<<"2", "0", "2", "0", "-", "0", "1">>)
             ELSE Str(<<"2", "0", "1", "9">>)]

\* records offset+1 .. offset+k of release `cat`
RemotePage(cat, g, offset, k) == [j \in 1..k |-> RemoteRecord(cat, g, offset + j)]

\* What one request can be answered with: a failing status (its body JSON or
\* not), a body that is not JSON, or a JSON body: a bare array, an object (with results an array, absent,
\* null or a string, and next null or a URL), null or a number.
Responses(cat, g, offset) ==
    LET counts == 0..Min(PageSize, MaxRecords - offset)
        pages == {RemotePage(cat, g, offset, k) : k \in counts}
    IN  {[ok |-> FALSE, json |-> js, kind |-> IF js THEN "object" ELSE "none",
          items |-> <<>>, results |-> Undefined, next |-> Undefined] :
            js \in BOOLEAN}
          \cup
        {[ok |-> TRUE, json |-> FALSE, kind |-> "none", items |-> <<>>,
          results |-> Undefined, next |-> Null]}
          \cup
        {[ok |-> TRUE, json |-> TRUE, kind |-> "array", items |-> pg,
          results |-> Undefined, next |-> Undefined] : pg \in pages}
          \cup
        {[ok |-> TRUE, json |-> TRUE, kind |-> "object", items |-> <<>>,
          results |-> Arr(pg), next |-> nx] :
            pg \in pages, nx \in {Null, Str(<<"u", "r", "l">>)}}
          \cup
        {[ok |-> TRUE, json |-> TRUE, kind |-> "object", items |-> <<>>,
          results |-> r, next |-> Null] :
            r \in {Undefined, Null, Str(<<"x">>)}}
          \cup
        {[ok |-> TRUE, json |-> TRUE, kind |-> k, items |-> <<>>,
          results |-> Undefined, next |-> Undefined] : k \in {"null", "number"}}

\* the records a response carries (what the server sent)
RecordsSent(resp) ==
    IF ~resp.json THEN <<>>
    ELSE IF resp.kind = "array" THEN resp.items
         ELSE IF resp.kind = "object" /\ resp.results.t = "array" THEN resp.results.items
              ELSE <<>>

HttpFailsNever(resp) == FALSE

\* !response.ok
HttpFails(resp) == ~resp.ok

IsLastPageNever(resp, n, pageSize) == FALSE

IsLastPageEmptyOnly(resp, n, pageSize) == n = 0

\* the two break conditions, on a page of n records
IsLastPage(resp, n, pageSize) ==
    \/ n = 0
    \/ resp.kind # "array" /\ IsNullish(resp.next) /\ n < pageSize

fetchAllScoresPageByPageSize(all, offset, pageSize, resp) ==
    LET stay(st, err) == [status |-> st, error |-> err, all |-> all, offset |-> offset]
        results == IF resp.kind = "array" THEN Arr(resp.items)
                   ELSE IF resp.kind = "object" THEN Coalesce(resp.results, Arr(<<>>))
                        ELSE Arr(<<>>)
    IN  IF HttpFails(resp) THEN stay("throw", "http")
        ELSE IF ~resp.json THEN stay("throw", "json")
        ELSE IF resp.kind = "null" THEN stay("throw", "type")
        ELSE IF results.t # "array" THEN stay("throw", "format")
        ELSE IF IsLastPage(resp, Len(results.items), pageSize)
             THEN [status |-> "break", error |-> "none",
                   all |-> all \o results.items, offset |-> offset]
             ELSE [status |-> "continue", error |-> "none",
                   all |-> all \o results.items, offset |-> offset + pageSize]

\* One turn of fetchAllScores' loop on the response to the request at `offset`:
\* status "throw" (with the error), "break" (all is the result) or "continue"
\* (the next request is issued at offset).
fetchAllScoresPage(all, offset, pageSize, resp) ==
    LET stay(st, err) == [status |-> st, error |-> err, all |-> all, offset |-> offset]
    IN  IF HttpFails(resp) THEN stay("throw", "http")
        ELSE IF ~resp.json THEN stay("throw", "json")
        ELSE IF resp.kind = "null" THEN stay("throw", "type")
        ELSE LET isArray == resp.kind = "array"
                 results == IF isArray THEN Arr(resp.items)
                            ELSE IF resp.kind = "object"
                                 THEN Coalesce(resp.results, Arr(<<>>))
                                 ELSE Arr(<<>>)
             IN  IF results.t # "array" THEN stay("throw", "format")
                 ELSE LET grown == all \o results.items
                          n == Len(results.items)
                      IN  IF IsLastPage(resp, n, pageSize)
                          THEN [status |-> "break", error |-> "none",
                                all |-> grown, offset |-> offset]
                          ELSE [status |-> "continue", error |-> "none",
                                all |-> grown, offset |-> offset + n]

(***************************************************************************)
(* The cache store and the orchestrator's decisions.                       *)
(***************************************************************************)
\* months a cache entry stays fresh: isCacheWithinMonths(cached.savedAt, 3)
MaxAgeMonths == 3

saveScoreSummaryEntrySummaryOnly(results, today) ==
    [t |-> "entry",
     savedAt |-> toISOString(today),
     summary |-> results.summary,
     scores |-> Undefined]

\* the object saveScoreSummary hands to localforage.setItem
saveScoreSummaryEntry(results, today) ==
    [t |-> "entry",
     savedAt |-> toISOString(today),
     summary |-> results.summary,
     scores |-> results.scores]

\* the object saveScoreSummary(summary) of the summary-only loadStats() hands
\* to setItem under the same key: it has no scores field
saveSummaryOnlyEntry(summary, today) ==
    [t |-> "entry",
     savedAt |-> toISOString(today),
     summary |-> summary,
     scores |-> Undefined]

setItemMerge(old, entry) ==
    IF old = Null THEN entry ELSE [entry EXCEPT !.scores = old.scores]

\* localforage.setItem(SCORE_SUMMARY_KEY, entry): the value under the key afterwards
setItem(old, entry) == entry

\* getStoredScoreSummary() when getItem succeeds: null without localforage, else
\* the value under SCORE_SUMMARY_KEY (null when there is none)
getStoredScoreSummary(hasLocalforage, stored) ==
    IF ~hasLocalforage THEN Null ELSE stored

\* cached?.summary is truthy
HasSummary(cached) ==
    /\ cached.t = "entry"
    /\ cached.summary \notin {Null, Undefined}

IsCacheHitInverted(cached, today) ==
    HasSummary(cached) /\ ~isCacheWithinMonths(cached.savedAt, MaxAgeMonths, today)

\* cached?.summary && isCacheWithinMonths(cached.savedAt, 3)
IsCacheHit(cached, today) ==
    HasSummary(cached) /\ isCacheWithinMonths(cached.savedAt, MaxAgeMonths, today)

\* results.summary = cached.summary; results.scores = cached.scores ?? []
ResultsFromCache(cached) ==
    [scores |-> Coalesce(cached.scores, Arr(<<>>)), summary |-> cached.summary]

CatchResultsNoFallback(cached, results) == results

CatchResultsSummaryOnly(cached, results) ==
    IF HasSummary(cached)
    THEN [scores |-> results.scores, summary |-> cached.summary]
    ELSE results

\* the catch block of loadScores: what it returns
CatchResults(cached, results) ==
    IF HasSummary(cached) THEN ResultsFromCache(cached) ELSE results

EmptyResults == [scores |-> Arr(<<>>), summary |-> Null]

(***************************************************************************)
(* State.                                                                  *)
(***************************************************************************)
VARIABLES
    store,        \* the value localforage holds under SCORE_SUMMARY_KEY (Null: none)
    localforage,  \* whether the localforage object exists
    now,          \* the clock: today's day number
    catalog,      \* the release the remote serves
    nextGen,      \* the number of the next loadScores() call
    pc,           \* per call: "idle", "getItem", "fetch", "setItem" or "done"
    gen,          \* per call: its number
    cached,       \* loadScores: const cached
    results,      \* loadScores: const results
    offset,       \* fetchAllScores: let offset
    all,          \* fetchAllScores: const all
    pending,      \* the entry handed to setItem and not yet stored
    outcome,      \* per call: "none", "returned" or "rejected"
    failure,      \* history: the error the call met ("none" when none)
    startedAt,    \* history: the clock when the call started
    storeAtCall,  \* history: the store when the call started
    served,       \* history: the records the remote sent to the call, in order
    requests,     \* history: how many page requests the call has issued
    asked,        \* history: the offsets the call has requested, in order
    lastPage,     \* history: the shape of the last response the call received
    malformed,    \* history: a body was neither an array nor an object with a results array
    lastSaved,    \* history: the entry of the save that completed last (Null: none)
    fToday,       \* freshness check: the clock
    fSavedAt,     \* freshness check: the savedAt examined
    fFresh,       \* freshness check: the answer of isCacheWithinMonths ("none": not asked)
    aKind,        \* aggregator: "scores" or "traits", the computeSummary applied
    aInput,       \* aggregator: the record collection handed to computeSummary
    aOutput,      \* aggregator: what computeSummary gave (NoOutput: not called yet)
    aPermuted,    \* aggregator: a reordering of aInput and what computeSummary gave for it
    sPc,          \* loadStats: "idle", "getItem", "loading" or "done"
    sCached,      \* loadStats: const cached
    sourceStatus, \* loadStats: sourceStatus.textContent ("" before the first run)
    variant,      \* default-options fetch: the file whose fetcher runs ("none": none)
    collection,   \* default-options fetch: how many records the remote holds
    shape,        \* default-options fetch: the remote answers with an "array" or an "envelope"
    dPc,          \* default-options fetch: "idle", "loop" or "returned"
    dPage,        \* fetchAllScores / fetchAllTraits: let page
    dOffset,      \* fetchAllScores / fetchAllTraits: let offset
    dAll          \* fetchAllScores / fetchAllTraits: const all

callVars == <<pc, gen, cached, results, offset, all, pending, outcome, failure,
              startedAt, storeAtCall, served, requests, asked, lastPage, malformed>>
freshVars == <<fToday, fSavedAt, fFresh>>
aggVars == <<aKind, aInput, aOutput, aPermuted>>
statsVars == <<sPc, sCached, sourceStatus>>
fetchVars == <<variant, collection, shape, dPc, dPage, dOffset, dAll>>
vars == <<store, localforage, now, catalog, nextGen, lastSaved, callVars, freshVars,
          aggVars, statsVars, fetchVars>>

\* the calls that can run: "a" alone in Spec, "a" and "b" overlapping in SpecConc
Procs == {"a", "b"}

\* 2024-01-01
FirstDay == MakeDay(2024, 0, 1)

NoPage == [shape |-> "none", count |-> 0, nextNull |-> FALSE]

\* the body is a JSON array
IsBareArray(resp) == resp.ok /\ resp.json /\ resp.kind = "array"

\* the body is a JSON object whose results field is an array
IsEnvelope(resp) ==
    resp.ok /\ resp.json /\ resp.kind = "object" /\ resp.results.t = "array"

\* what the history keeps of a response
PageShape(resp) ==
    [shape |-> IF ~resp.ok THEN "failed"
               ELSE IF ~resp.json THEN "unparsable"
               ELSE IF IsBareArray(resp) THEN "array"
               ELSE IF IsEnvelope(resp) THEN "envelope"
               ELSE "other",
     count |-> Len(RecordsSent(resp)),
     nextNull |-> resp.kind = "object" /\ IsNullish(resp.next)]

InitCalls ==
    /\ pc = [p \in Procs |-> "idle"]
    /\ gen = [p \in Procs |-> 0]
    /\ cached = [p \in Procs |-> Null]
    /\ results = [p \in Procs |-> EmptyResults]
    /\ offset = [p \in Procs |-> 0]
    /\ all = [p \in Procs |-> <<>>]
    /\ pending = [p \in Procs |-> Null]
    /\ outcome = [p \in Procs |-> "none"]
    /\ failure = [p \in Procs |-> "none"]
    /\ startedAt = [p \in Procs |-> FirstDay]
    /\ storeAtCall = [p \in Procs |-> Null]
    /\ served = [p \in Procs |-> <<>>]
    /\ requests = [p \in Procs |-> 0]
    /\ asked = [p \in Procs |-> <<>>]
    /\ lastPage = [p \in Procs |-> NoPage]
    /\ malformed = [p \in Procs |-> FALSE]

InitFreshIdle ==
    /\ fToday = FirstDay
    /\ fSavedAt = Undefined
    /\ fFresh = "none"

\* computeSummary has not been called
NoOutput == [t |-> "none"]

InitAggIdle ==
    /\ aKind = "scores"
    /\ aInput = <<>>
    /\ aOutput = NoOutput
    /\ aPermuted = NoOutput

InitStatsIdle ==
    /\ sPc = "idle"
    /\ sCached = Null
    /\ sourceStatus = ""

\* no fetcher has been called with its default options
InitFetchIdle ==
    /\ variant = "none"
    /\ collection = 0
    /\ shape = "array"
    /\ dPc = "idle"
    /\ dPage = 0
    /\ dOffset = 0
    /\ dAll = <<>>

Init ==
    /\ store = Null
    /\ localforage \in BOOLEAN
    /\ now = FirstDay
    /\ catalog = 1
    /\ nextGen = 1
    /\ lastSaved = Null
    /\ InitCalls
    /\ InitFreshIdle
    /\ InitAggIdle
    /\ InitStatsIdle
    /\ InitFetchIdle

(***************************************************************************)
(* loadScores().                                                           *)
(***************************************************************************)
\* lines 180-187: the call builds results and awaits getStoredScoreSummary()
loadScoresCall(p) ==
    /\ pc[p] = "idle"
    /\ nextGen <= MaxCalls
    /\ pc' = [pc EXCEPT ![p] = "getItem"]
    /\ gen' = [gen EXCEPT ![p] = nextGen]
    /\ nextGen' = nextGen + 1
    /\ results' = [results EXCEPT ![p] = EmptyResults]
    /\ startedAt' = [startedAt EXCEPT ![p] = now]
    /\ storeAtCall' = [storeAtCall EXCEPT ![p] = store]
    /\ UNCHANGED <<store, localforage, now, catalog, lastSaved, cached, offset, all,
                   pending, outcome, failure, served, requests, asked, lastPage,
                   malformed, freshVars, aggVars, statsVars, fetchVars>>

\* lines 187-198: the cache read resolves; a fresh entry with a summary is
\* returned, otherwise fetchAllScores starts and requests offset 0
loadScoresGotCache(p) ==
    /\ pc[p] = "getItem"
    /\ LET value == getStoredScoreSummary(localforage, store)
       IN  /\ cached' = [cached EXCEPT ![p] = value]
           /\ IF IsCacheHit(value, now)
              THEN /\ results' = [results EXCEPT ![p] = ResultsFromCache(value)]
                   /\ pc' = [pc EXCEPT ![p] = "done"]
                   /\ outcome' = [outcome EXCEPT ![p] = "returned"]
                   /\ UNCHANGED <<offset, all, requests, asked>>
              ELSE /\ pc' = [pc EXCEPT ![p] = "fetch"]
                   /\ offset' = [offset EXCEPT ![p] = 0]
                   /\ all' = [all EXCEPT ![p] = <<>>]
                   /\ requests' = [requests EXCEPT ![p] = 1]
                   /\ asked' = [asked EXCEPT ![p] = <<0>>]
                   /\ UNCHANGED <<results, outcome>>
    /\ UNCHANGED <<store, localforage, now, catalog, nextGen, lastSaved, gen, pending,
                   failure, startedAt, storeAtCall, served, lastPage, malformed, freshVars, aggVars, statsVars, fetchVars>>

\* line 187, outside the try block: getItem rejects and loadScores() rejects with it
loadScoresGetFailed(p) ==
    /\ pc[p] = "getItem"
    /\ localforage
    /\ pc' = [pc EXCEPT ![p] = "done"]
    /\ outcome' = [outcome EXCEPT ![p] = "rejected"]
    /\ failure' = [failure EXCEPT ![p] = "getItem"]
    /\ UNCHANGED <<store, localforage, now, catalog, nextGen, lastSaved, gen, cached,
                   results, offset, all, pending, startedAt, storeAtCall, served,
                   requests, asked, lastPage, malformed, freshVars, aggVars, statsVars, fetchVars>>

\* lines 209-217: the catch block returns
Caught(p, error) ==
    /\ results' = [results EXCEPT ![p] = CatchResults(cached[p], results[p])]
    /\ pc' = [pc EXCEPT ![p] = "done"]
    /\ outcome' = [outcome EXCEPT ![p] = "returned"]
    /\ failure' = [failure EXCEPT ![p] = error]

\* lines 58-86 and 198-202: a response arrives; the loop throws, goes on to the
\* next page, or ends, and then the summary is computed and the save started
fetchAllScoresResponse(p) ==
    /\ pc[p] = "fetch"
    /\ \E resp \in Responses(catalog, gen[p], offset[p]) :
         LET r == fetchAllScoresPage(all[p], offset[p], PageSize, resp)
         IN  /\ served' = [served EXCEPT ![p] = @ \o RecordsSent(resp)]
             /\ lastPage' = [lastPage EXCEPT ![p] = PageShape(resp)]
             /\ malformed' = [malformed EXCEPT ![p] =
                    @ \/ PageShape(resp).shape = "other"]
             /\ all' = [all EXCEPT ![p] = r.all]
             /\ offset' = [offset EXCEPT ![p] = r.offset]
             /\ CASE r.status = "throw" ->
                       /\ Caught(p, r.error)
                       /\ UNCHANGED <<requests, asked, pending>>
                  [] r.status = "continue" ->
                       /\ requests' = [requests EXCEPT ![p] = @ + 1]
                       /\ asked' = [asked EXCEPT ![p] = Append(@, r.offset)]
                       /\ UNCHANGED <<pc, results, outcome, failure, pending>>
                  [] r.status = "break" ->
                       IF computeSummaryThrows(r.all)
                       THEN /\ Caught(p, "aggregate")
                            /\ UNCHANGED <<requests, asked, pending>>
                       ELSE LET fresh == [scores |-> Arr(r.all),
                                          summary |-> computeSummary(r.all)]
                            IN  /\ results' = [results EXCEPT ![p] = fresh]
                                /\ IF localforage
                                   THEN /\ pending' = [pending EXCEPT ![p] =
                                                saveScoreSummaryEntry(fresh, now)]
                                        /\ pc' = [pc EXCEPT ![p] = "setItem"]
                                        /\ UNCHANGED outcome
                                   ELSE /\ pc' = [pc EXCEPT ![p] = "done"]
                                        /\ outcome' = [outcome EXCEPT ![p] = "returned"]
                                        /\ UNCHANGED pending
                                /\ UNCHANGED <<requests, asked, failure>>
    /\ UNCHANGED <<store, localforage, now, catalog, nextGen, lastSaved, gen, cached,
                   startedAt, storeAtCall, freshVars, aggVars, statsVars, fetchVars>>

\* lines 25-29 and 202-208: setItem stores the entry and loadScores returns results
saveScoreSummaryDone(p) ==
    /\ pc[p] = "setItem"
    /\ store' = setItem(store, pending[p])
    /\ lastSaved' = pending[p]
    /\ pc' = [pc EXCEPT ![p] = "done"]
    /\ outcome' = [outcome EXCEPT ![p] = "returned"]
    /\ UNCHANGED <<localforage, now, catalog, nextGen, gen, cached, results, offset,
                   all, pending, failure, startedAt, storeAtCall, served, requests, asked,
                   lastPage, malformed, freshVars, aggVars, statsVars, fetchVars>>

\* lines 25-29 and 209-217: setItem rejects inside the try block
saveScoreSummaryFailed(p) ==
    /\ pc[p] = "setItem"
    /\ Caught(p, "setItem")
    /\ UNCHANGED <<store, localforage, now, catalog, nextGen, lastSaved, gen, cached,
                   offset, all, pending, startedAt, storeAtCall, served, requests, asked,
                   lastPage, malformed, freshVars, aggVars, statsVars, fetchVars>>

\* the caller has its answer; the next call starts from scratch
loadScoresReturn(p) ==
    /\ pc[p] = "done"
    /\ pc' = [pc EXCEPT ![p] = "idle"]
    /\ gen' = [gen EXCEPT ![p] = 0]
    /\ cached' = [cached EXCEPT ![p] = Null]
    /\ results' = [results EXCEPT ![p] = EmptyResults]
    /\ offset' = [offset EXCEPT ![p] = 0]
    /\ all' = [all EXCEPT ![p] = <<>>]
    /\ pending' = [pending EXCEPT ![p] = Null]
    /\ outcome' = [outcome EXCEPT ![p] = "none"]
    /\ failure' = [failure EXCEPT ![p] = "none"]
    /\ startedAt' = [startedAt EXCEPT ![p] = FirstDay]
    /\ storeAtCall' = [storeAtCall EXCEPT ![p] = Null]
    /\ served' = [served EXCEPT ![p] = <<>>]
    /\ requests' = [requests EXCEPT ![p] = 0]
    /\ asked' = [asked EXCEPT ![p] = <<>>]
    /\ lastPage' = [lastPage EXCEPT ![p] = NoPage]
    /\ malformed' = [malformed EXCEPT ![p] = FALSE]
    /\ UNCHANGED <<store, localforage, now, catalog, nextGen, lastSaved, freshVars, aggVars, statsVars, fetchVars>>

(***************************************************************************)
(* The environment.                                                        *)
(***************************************************************************)
\* time passes
Tick ==
    /\ now + TickDays <= FirstDay + MaxDay
    /\ now' = now + TickDays
    /\ UNCHANGED <<store, localforage, catalog, nextGen, lastSaved, callVars, freshVars, aggVars, statsVars, fetchVars>>

\* the catalog publishes its next release (between fetches: a fetch sees one release)
Release ==
    /\ catalog < NumCatalogs
    /\ \A p \in Procs : pc[p] # "fetch"
    /\ catalog' = catalog + 1
    /\ UNCHANGED <<store, localforage, now, nextGen, lastSaved, callVars, freshVars, aggVars, statsVars, fetchVars>>

Step(p) ==
    \/ loadScoresCall(p)
    \/ loadScoresGotCache(p)
    \/ loadScoresGetFailed(p)
    \/ fetchAllScoresResponse(p)
    \/ saveScoreSummaryDone(p)
    \/ saveScoreSummaryFailed(p)
    \/ loadScoresReturn(p)

\* calls made one after another (spec section 5: no concurrent invocations)
Next == Step("a") \/ Tick \/ Release

Spec == Init /\ [][Next]_vars

\* Two calls that may overlap (two pages loaded at once).  To keep the product
\* of the two calls small the remote here answers every fetch with one page: a
\* failing status, or an envelope holding all its records with a null next.
ConcStep(p) ==
    /\ Step(p)
    /\ requests'[p] <= 1
    /\ lastPage'[p].shape \in {"none", "envelope", "failed"}

NextConc == (\E p \in Procs : ConcStep(p)) \/ Tick

SpecConc == Init /\ [][NextConc]_vars

(***************************************************************************)
(* loadStats() of loadScores.mjs: it reads the cache itself, awaits        *)
(* loadScores() and leaves the source status.                              *)
(***************************************************************************)
StatusLoading == "Source: loading PGS score metadata..."
StatusUnavailable == "Source: unavailable"
StatusCache == "Source: local cache (LocalForage, < 3 months)"
StatusLive == "Source: PGS Catalog REST API (live)"
StatusFallback == "Source: local cache (LocalForage fallback)"

\* line 229-232: loadStats() is called and awaits getStoredScoreSummary()
loadStatsCall ==
    /\ sPc = "idle"
    /\ pc["a"] = "idle"
    /\ nextGen <= MaxCalls
    /\ sPc' = "getItem"
    /\ UNCHANGED <<store, localforage, now, catalog, nextGen, lastSaved, callVars,
                   freshVars, aggVars, fetchVars, sCached, sourceStatus>>

\* lines 232-238: the cache read resolves, the status says loading and
\* loadScores() is called
loadStatsGotCache ==
    /\ sPc = "getItem"
    /\ sCached' = getStoredScoreSummary(localforage, store)
    /\ sourceStatus' = StatusLoading
    /\ sPc' = "loading"
    /\ UNCHANGED <<store, localforage, now, catalog, nextGen, lastSaved, callVars,
                   freshVars, aggVars, fetchVars>>

\* line 232, outside the try block: getItem rejects and loadStats() rejects with it
loadStatsGetFailed ==
    /\ sPc = "getItem"
    /\ localforage
    /\ sPc' = "done"
    /\ UNCHANGED <<store, localforage, now, catalog, nextGen, lastSaved, callVars,
                   freshVars, aggVars, fetchVars, sCached, sourceStatus>>

\* the status loadStats() leaves once loadScores() has settled: lines 238-263
\* when it returned, lines 264-281 (the catch block) when it rejected
StatusLeft(cachedAtStart, scoresOutcome, scoresResults, today) ==
    IF scoresOutcome = "rejected"
    THEN IF HasSummary(cachedAtStart) THEN StatusFallback ELSE StatusUnavailable
    ELSE IF scoresResults.summary \in {Null, Undefined} THEN StatusUnavailable
         ELSE IF IsCacheHit(cachedAtStart, today) THEN StatusCache
              ELSE StatusLive

\* lines 238-281: loadScores() has settled and loadStats() finishes
loadStatsDone ==
    /\ sPc = "loading"
    /\ pc["a"] = "done"
    /\ sourceStatus' = StatusLeft(sCached, outcome["a"], results["a"], now)
    /\ sPc' = "done"
    /\ UNCHANGED <<store, localforage, now, catalog, nextGen, lastSaved, callVars,
                   freshVars, aggVars, fetchVars, sCached>>

\* the page is shown; loadStats() may be called again
loadStatsReturn ==
    /\ sPc = "done"
    /\ pc["a"] = "idle"
    /\ sPc' = "idle"
    /\ sCached' = Null
    /\ UNCHANGED <<store, localforage, now, catalog, nextGen, lastSaved, callVars,
                   freshVars, aggVars, fetchVars, sourceStatus>>

\* the steps of the loadScores() call loadStats() awaits
loadStatsAwaits ==
    /\ \/ sPc = "loading" /\ pc["a"] # "done"
       \/ sPc = "done" /\ pc["a"] = "done"
    /\ Step("a")

NextStats ==
    \/ loadStatsCall
    \/ loadStatsGotCache
    \/ loadStatsGetFailed
    \/ loadStatsAwaits
    \/ loadStatsDone
    \/ loadStatsReturn
    \/ Tick
    \/ Release

SpecStats == Init /\ [][NextStats]_vars

(***************************************************************************)
(* The summary-only loadStats() (the page script that keeps the summary    *)
(* alone under SCORE_SUMMARY_KEY) run between calls of loadScores().       *)
(***************************************************************************)
\* A whole run of that loadStats(): the cache read gives no fresh summary, the
\* fetch gathers the first k records of the release, computeSummary returns and
\* saveScoreSummary(summary) stores the summary.
loadStatsSummaryOnly ==
    /\ localforage
    /\ \A p \in Procs : pc[p] = "idle"
    /\ ~IsCacheHit(getStoredScoreSummary(localforage, store), now)
    /\ \E k \in 0..MaxRecords :
         LET scores == RemotePage(catalog, 0, 0, k)
         IN  /\ ~computeSummaryThrows(scores)
             /\ store' = setItem(store, saveSummaryOnlyEntry(computeSummary(scores), now))
             /\ lastSaved' = saveSummaryOnlyEntry(computeSummary(scores), now)
    /\ UNCHANGED <<localforage, now, catalog, nextGen, callVars, freshVars, aggVars, statsVars, fetchVars>>

NextShared == Next \/ loadStatsSummaryOnly

SpecShared == Init /\ [][NextShared]_vars

(***************************************************************************)
(* The four fetchers called with their default options against a remote    *)
(* that holds a fixed collection and answers every request by its limit    *)
(* and offset.                                                             *)
(***************************************************************************)
Variants == {"loadScores.mjs", "loadStats.js", "loadPgs.js", "loadTraits.js"}

\* the default of the pageSize option
pageSizeDefault(v) ==
    CASE v = "loadScores.mjs" -> 200
      [] v = "loadStats.js" -> 200
      [] v = "loadPgs.js" -> 50
      [] v = "loadTraits.js" -> 50

\* the loop condition: while (true) in loadScores.mjs and loadStats.js,
\* while (page < maxPages) with maxPages = 4 in loadPgs.js and
\* maxPages = Infinity in loadTraits.js
loopCondition(v, page) ==
    CASE v = "loadPgs.js" -> page < 4
      [] OTHER -> TRUE

\* the remote's answer to limit and offset: records offset+1 .. offset+limit
\* of the collection, as far as they exist; an envelope's next is null on the
\* page that reaches the end of the collection
RemoteAnswer(size, sh, off, limit) ==
    LET k == IF off >= size THEN 0 ELSE Min(limit, size - off)
        pg == RemotePage(1, 0, off, k)
    IN  IF sh = "array"
        THEN [ok |-> TRUE, json |-> TRUE, kind |-> "array", items |-> pg,
              results |-> Undefined, next |-> Undefined]
        ELSE [ok |-> TRUE, json |-> TRUE, kind |-> "object", items |-> <<>>,
              results |-> Arr(pg),
              next |-> IF off + limit >= size THEN Null ELSE Str(<<"u", "r", "l">>)]

InitFetch ==
    /\ store = Null
    /\ localforage = TRUE
    /\ now = FirstDay
    /\ catalog = 1
    /\ nextGen = 1
    /\ lastSaved = Null
    /\ InitCalls
    /\ InitFreshIdle
    /\ InitAggIdle
    /\ InitStatsIdle
    /\ variant \in Variants
    /\ collection \in 0..MaxCollection
    /\ shape \in {"array", "envelope"}
    /\ dPc = "loop"
    /\ dPage = 0
    /\ dOffset = 0
    /\ dAll = <<>>

\* one turn of the loop: the request, the response, push, the stop conditions
fetchAllTurn ==
    /\ dPc = "loop"
    /\ loopCondition(variant, dPage)
    /\ LET pageSize == pageSizeDefault(variant)
           resp == RemoteAnswer(collection, shape, dOffset, pageSize)
           turn == fetchAllScoresPage(dAll, dOffset, pageSize, resp)
       IN  /\ dAll' = turn.all
           /\ dOffset' = turn.offset
           /\ dPage' = dPage + 1
           /\ dPc' = IF turn.status = "continue" THEN "loop" ELSE "returned"
    /\ UNCHANGED <<store, localforage, now, catalog, nextGen, lastSaved, callVars,
                   freshVars, aggVars, statsVars, variant, collection, shape>>

\* the loop condition fails: return all
fetchAllMaxPages ==
    /\ dPc = "loop"
    /\ ~loopCondition(variant, dPage)
    /\ dPc' = "returned"
    /\ UNCHANGED <<store, localforage, now, catalog, nextGen, lastSaved, callVars,
                   freshVars, aggVars, statsVars, variant, collection, shape,
                   dPage, dOffset, dAll>>

NextFetch == fetchAllTurn \/ fetchAllMaxPages

SpecFetch == InitFetch /\ [][NextFetch]_vars

(***************************************************************************)
(* The freshness policy on its own: isCacheWithinMonths(savedAt, 3) asked   *)
(* on any day, of any savedAt around three months before it.               *)
(***************************************************************************)
SavedAtInputs(today) ==
    {toISOString(d) : d \in (today - 90 - FreshWindow)..(today - 90 + FreshWindow)}
        \cup {Undefined, Null, Str(<<>>), Str(<<"s", "o", "o", "n">>)}

InitFresh ==
    /\ store = Null
    /\ localforage = TRUE
    /\ now = FirstDay
    /\ catalog = 1
    /\ nextGen = 1
    /\ lastSaved = Null
    /\ InitCalls
    /\ fToday \in FirstDay..(FirstDay + FreshDays)
    /\ fSavedAt \in SavedAtInputs(fToday)
    /\ fFresh = "none"
    /\ InitAggIdle
    /\ InitStatsIdle
    /\ InitFetchIdle

AskFresh ==
    /\ fFresh = "none"
    /\ fFresh' = IF isCacheWithinMonths(fSavedAt, MaxAgeMonths, fToday) THEN "yes" ELSE "no"
    /\ UNCHANGED <<store, localforage, now, catalog, nextGen, lastSaved, callVars,
                   fToday, fSavedAt, aggVars, statsVars, fetchVars>>

NextFresh == AskFresh

SpecFresh == InitFresh /\ [][NextFresh]_vars

\* isCacheWithinMonths(savedAt, 3) asked again of the same savedAt, some days
\* later (a later load call reading the entry that is still stored)
AskAgain ==
    /\ fFresh # "none"
    /\ DateParse(fSavedAt).t = "num"
    /\ \E d \in 1..MaxLater :
        /\ fToday + d <= DateParse(fSavedAt).n + 90 + FreshWindow
        /\ fToday' = fToday + d
        /\ fFresh' = IF isCacheWithinMonths(fSavedAt, MaxAgeMonths, fToday + d)
                     THEN "yes" ELSE "no"
    /\ UNCHANGED <<store, localforage, now, catalog, nextGen, lastSaved, callVars,
                   fSavedAt, aggVars, statsVars, fetchVars>>

NextStale == AskFresh \/ AskAgain

SpecStale == InitFresh /\ [][NextStale]_vars

(***************************************************************************)
(* The aggregators on their own: computeSummary of loadScores.mjs and of   *)
(* loadTraits.js applied to a record collection.                           *)
(***************************************************************************)
DigitChar(d) ==
    CASE d = 0 -> "0" [] d = 1 -> "1" [] d = 2 -> "2" [] d = 3 -> "3"
      [] d = 4 -> "4" [] d = 5 -> "5" [] d = 6 -> "6" [] d = 7 -> "7"
      [] d = 8 -> "8" [] d = 9 -> "9"

\* the i-th trait name: "t01", "t02", ...
TraitName(i) == Str(<<"t", DigitChar((i \div 10) % 10), DigitChar(i % 10)>>)

ScoreObject(v, tr, d) ==
    [id |-> 0, gen |-> 0, variants_number |-> v, trait_reported |-> tr,
     date_release |-> d]

\* n score records with pairwise distinct traits; variants_number runs from n
\* down to 1 and the release years alternate between 2020 and 2019
TraitRun(n) ==
    [i \in 1..n |->
        ScoreObject(Num(n - i + 1), TraitName(i),
                    IF i % 2 = 1 THEN Str(<<"2", "0", "2", "0", "-", "0", "1">>)
                    ELSE Str(<<"2", "0", "1", "9">>))]

\* score records of every shape the fields can take in a JSON body
ExtraRecords ==
    {ScoreObject(Num(5), TraitName(1), Str(<<"2", "0", "2", "1", "-", "0", "3">>)),
     ScoreObject(Null, Null, Null),
     ScoreObject(Undefined, Undefined, Undefined),
     ScoreObject(Str(<<>>), Str(<<>>), Str(<<>>)),
     ScoreObject(Str(<<"a", "b", "c">>), Num(0), Str(<<"a", "b", "c">>)),
     ScoreObject(Str(<<" ", "1", "2", " ">>), False, Str(<<"2", "0", "1", "9">>)),
     ScoreObject(Num(0), Str(<<"N", "R">>), Str(<<"2", "0", "2", "1", "-", "0", "3">>)),
     ScoreObject(Num(3), TraitName(2), Num(2020))}

RECURSIVE SeqsUpTo(_, _)
SeqsUpTo(S, n) ==
    IF n = 0 THEN {<<>>}
    ELSE LET shorter == SeqsUpTo(S, n - 1)
         IN  shorter \cup {Append(q, x) : q \in shorter, x \in S}

ScoreInputs ==
    {TraitRun(n) \o extras : n \in 0..MaxTraits, extras \in SeqsUpTo(ExtraRecords, MaxExtras)}

TraitRecords ==
    {Null,
     TraitObject(Undefined),
     TraitObject(Arr(<<>>)),
     TraitObject(Str(<<"c", "1">>)),
     TraitObject(Arr(<<Str(<<"c", "1">>)>>)),
     TraitObject(Arr(<<Str(<<"c", "1">>), Str(<<"c", "2">>)>>)),
     TraitObject(Arr(<<Str(<<"c", "2">>), Str(<<>>)>>))}

TraitInputs == SeqsUpTo(TraitRecords, MaxTraitRecords)

Threw == [t |-> "threw"]

Returned(summary) == [t |-> "summary", value |-> summary]

InitAgg ==
    /\ store = Null
    /\ localforage = TRUE
    /\ now = FirstDay
    /\ catalog = 1
    /\ nextGen = 1
    /\ lastSaved = Null
    /\ InitCalls
    /\ InitFreshIdle
    /\ \/ aKind = "scores" /\ aInput \in ScoreInputs
       \/ aKind = "traits" /\ aInput \in TraitInputs
    /\ aOutput = NoOutput
    /\ aPermuted = NoOutput
    /\ InitStatsIdle
    /\ InitFetchIdle

\* computeSummary(scores) of loadScores.mjs
Summarize ==
    /\ aKind = "scores"
    /\ aOutput = NoOutput
    /\ aOutput' = IF computeSummaryThrows(aInput) THEN Threw
                  ELSE Returned(computeSummary(aInput))
    /\ UNCHANGED <<store, localforage, now, catalog, nextGen, lastSaved, callVars,
                   freshVars, aKind, aInput, aPermuted, statsVars, fetchVars>>

\* computeSummary(traits) of loadTraits.js
SummarizeTraits ==
    /\ aKind = "traits"
    /\ aOutput = NoOutput
    /\ aOutput' = Returned(computeSummaryTraits(aInput))
    /\ UNCHANGED <<store, localforage, now, catalog, nextGen, lastSaved, callVars,
                   freshVars, aKind, aInput, aPermuted, statsVars, fetchVars>>

\* the collection in reverse order
Reverse(seq) == [i \in 1..Len(seq) |-> seq[Len(seq) + 1 - i]]

\* the collection with its first record moved to the end
Rotate(seq) == IF seq = <<>> THEN <<>> ELSE Append(Tail(seq), Head(seq))

\* the same records handed to computeSummary in another order
SummarizePermuted ==
    /\ aPermuted = NoOutput
    /\ \E perm \in {Reverse(aInput), Rotate(aInput)} :
         aPermuted' =
            [t |-> "permuted",
             input |-> perm,
             output |-> IF aKind = "traits" THEN Returned(computeSummaryTraits(perm))
                        ELSE IF computeSummaryThrows(perm) THEN Threw
                             ELSE Returned(computeSummary(perm))]
    /\ UNCHANGED <<store, localforage, now, catalog, nextGen, lastSaved, callVars,
                   freshVars, aKind, aInput, aOutput, statsVars, fetchVars>>

NextAgg == Summarize \/ SummarizeTraits \/ SummarizePermuted

SpecAgg == InitAgg /\ [][NextAgg]_vars

(***************************************************************************)
(* Vocabulary of the properties.                                           *)
(***************************************************************************)
\* the day k calendar months before `today`: today moved back by the lengths of
\* the k months that precede today's month
RECURSIVE CalendarMonthsBefore(_, _)
CalendarMonthsBefore(today, k) ==
    IF k = 0 THEN today
    ELSE LET y == YearFromDay(today)
             m0 == MonthFromDay(today)
             firstOfMonth == today - DateFromDay(today) + 1
             prevMonthLast == firstOfMonth - 1
             prevLen == DateFromDay(prevMonthLast)
         IN  CalendarMonthsBefore(prevMonthLast, k - 1) - prevLen + DateFromDay(today)

\* a stored entry that carries a summary
EntryHasSummary(e) == e # Null /\ e.summary # Null /\ e.summary # Undefined

\* a stored entry saved no more than three calendar months before `today`
EntryIsFresh(e, today) ==
    DateParse(e.savedAt).t = "num"
        /\ DateParse(e.savedAt).n >= CalendarMonthsBefore(today, 3)

\* the summary and records of a stored entry, as a result
EntryAsResult(e) == [scores |-> e.scores, summary |-> e.summary]

\* the result made of this call's fetch
FetchAsResult(p) == [scores |-> Arr(served[p]), summary |-> computeSummary(served[p])]

FetchErrors == {"http", "json", "type", "format"}

Ended(p) == pc[p] = "done"

\* the counts of a frequency table never increase from one entry to the next
CountsNonIncreasing(table) ==
    \A i \in 1..Len(table) : \A j \in (i + 1)..Len(table) : table[i][2] >= table[j][2]

\* the sum of the counts of a frequency table
RECURSIVE SumOfCounts(_)
SumOfCounts(table) ==
    IF table = <<>> THEN 0 ELSE Head(table)[2] + SumOfCounts(Tail(table))

\* the trait_reported values of a collection (an absent one is undefined)
TraitValues(scores) == {scores[i].trait_reported : i \in 1..Len(scores)}

\* what a trait record contributes to the categories table: one per category
\* it lists, one when it lists none
RECURSIVE Contributions(_)
Contributions(traits) ==
    IF traits = <<>> THEN 0
    ELSE LET tr == Head(traits)
             listed == IF tr.t = "object" /\ tr.trait_categories.t = "array"
                       THEN Len(tr.trait_categories.items) ELSE 0
         IN  (IF listed = 0 THEN 1 ELSE listed) + Contributions(Tail(traits))

\* a variants_number that is a finite number or a string that reads as one:
\* not absent, not null, not empty or blank, not any other text
IsNumeric(x) ==
    \/ x.t = "num"
    \/ /\ x.t = "str"
       /\ TrimRight(TrimLeft(x.s)) # <<>>
       /\ \A i \in 1..Len(TrimRight(TrimLeft(x.s))) : TrimRight(TrimLeft(x.s))[i] \in Digits

\* the numbers the records with a numeric variants_number carry, in input order
RECURSIVE NumericValues(_)
NumericValues(scores) ==
    IF scores = <<>> THEN <<>>
    ELSE LET x == Head(scores).variants_number
         IN  (IF IsNumeric(x)
              THEN <<IF x.t = "num" THEN x.n ELSE DecimalValue(TrimRight(TrimLeft(x.s)))>>
              ELSE <<>>) \o NumericValues(Tail(scores))

\* least, greatest and mean of a list of numbers (null for the empty list)
Least(nums) ==
    IF nums = <<>> THEN RNull
    ELSE Rat(CHOOSE v \in {nums[i] : i \in 1..Len(nums)} :
                \A i \in 1..Len(nums) : v <= nums[i], 1)

Greatest(nums) ==
    IF nums = <<>> THEN RNull
    ELSE Rat(CHOOSE v \in {nums[i] : i \in 1..Len(nums)} :
                \A i \in 1..Len(nums) : v >= nums[i], 1)

Average(nums) == IF nums = <<>> THEN RNull ELSE Rat(Sum(nums), Len(nums))

\* the list is in ascending order
IsAscending(nums) == \A i \in 1..(Len(nums) - 1) : nums[i] <= nums[i + 1]

\* the median of an ascending list: the middle element of an odd-length list,
\* the mean of the two central elements of an even-length list, null for none
MedianOf(nums) ==
    LET n == Len(nums)
    IN  IF n = 0 THEN RNull
        ELSE IF n % 2 = 1 THEN Rat(nums[(n + 1) \div 2], 1)
             ELSE Rat(nums[n \div 2] + nums[(n \div 2) + 1], 2)

\* the key a score record is to be counted under: "NR" when trait_reported is
\* absent, the value itself whenever the field is present
LiteralKey(score) ==
    IF score.trait_reported = Undefined THEN Str(<<"N", "R">>) ELSE score.trait_reported

\* how many records of the collection are to be counted under the key
RECURSIVE RecordsUnder(_, _)
RecordsUnder(key, scores) ==
    IF scores = <<>> THEN 0
    ELSE (IF LiteralKey(Head(scores)) = key THEN 1 ELSE 0) + RecordsUnder(key, Tail(scores))

\* how often a trait record lists the category; a record listing none counts
\* once under "NR"
ListedUnder(key, trait) ==
    LET items == IF trait.t = "object" /\ trait.trait_categories.t = "array"
                 THEN trait.trait_categories.items ELSE <<>>
    IN  IF items = <<>> THEN (IF key = Str(<<"N", "R">>) THEN 1 ELSE 0)
        ELSE Cardinality({i \in 1..Len(items) : items[i] = key})

RECURSIVE CategoriesUnder(_, _)
CategoriesUnder(key, traits) ==
    IF traits = <<>> THEN 0
    ELSE ListedUnder(key, Head(traits)) + CategoriesUnder(key, Tail(traits))

\* the entries of a frequency table, whatever their order
Entries(table) == {table[k] : k \in 1..Len(table)}

\* computeSummary of loadScores.mjs returned a summary
ScoresSummarized == aKind = "scores" /\ aOutput.t = "summary"

\* computeSummary of loadTraits.js returned a summary
TraitsSummarized == aKind = "traits" /\ aOutput.t = "summary"

\* a request of the call was answered with a failing status or an unreadable body
PageRequestFailed(p) == lastPage[p].shape \in {"failed", "unparsable"}

(***************************************************************************)
(* Properties.                                                             *)
(***************************************************************************)

\* C1 (cache hit): when the cache read of a call yields an entry that has a
\* summary and was saved within three calendar months, the call ends at once
\* returning that entry's summary and records, has issued no request, and the
\* store still holds the entry it read.
C1_CacheHitReturnsEntry ==
    [][\A p \in Procs :
          (/\ pc[p] = "getItem"
           /\ pc'[p] # "getItem"
           /\ outcome'[p] # "rejected"
           /\ EntryHasSummary(cached'[p])
           /\ EntryIsFresh(cached'[p], now))
          => (/\ pc'[p] = "done"
              /\ outcome'[p] = "returned"
              /\ results'[p] = EntryAsResult(cached'[p])
              /\ requests'[p] = 0
              /\ served'[p] = <<>>
              /\ store' = store
              /\ store' = cached'[p])]_vars

\* a call has ended on a cache hit that returned records
C1_Witness ==
    \E p \in Procs :
        /\ Ended(p)
        /\ requests[p] = 0
        /\ outcome[p] = "returned"
        /\ EntryHasSummary(cached[p])
        /\ results[p].scores.items # <<>>
        /\ now > startedAt[p]

\* C2 as stated (fetch success): a call that found no fresh entry and whose
\* page requests all succeeded returns the summary of exactly the fetched
\* records with those records, and the store then holds an entry with that
\* summary and those records, saved no earlier than the call started.
\* (Stated for a page where localforage exists, the only case in which the
\* store can hold anything.)
C2_FetchSuccessAsStated ==
    \A p \in Procs :
        (Ended(p) /\ outcome[p] = "returned" /\ requests[p] >= 1
            /\ failure[p] \notin FetchErrors /\ localforage)
        => (/\ results[p] = FetchAsResult(p)
            /\ store # Null
            /\ store.summary = results[p].summary
            /\ store.scores = results[p].scores
            /\ DateParse(store.savedAt).n >= startedAt[p])

\* C2 (amended): the same, for a call whose fetch, aggregation and cache write
\* all succeeded (the store exists and setItem resolved).
C2_FetchSuccessSaved ==
    \A p \in Procs :
        (Ended(p) /\ outcome[p] = "returned" /\ requests[p] >= 1
            /\ failure[p] = "none" /\ localforage)
        => (/\ results[p] = FetchAsResult(p)
            /\ store # Null
            /\ store.summary = results[p].summary
            /\ store.scores = results[p].scores
            /\ DateParse(store.savedAt).t = "num"
            /\ DateParse(store.savedAt).n >= startedAt[p])

\* a call fetched three pages, saved, and returned while the clock moved on
C2_Witness ==
    \E p \in Procs :
        /\ Ended(p)
        /\ failure[p] = "none"
        /\ localforage
        /\ requests[p] = 3
        /\ Len(served[p]) = 2 * PageSize + 1
        /\ storeAtCall[p] # Null
        /\ DateParse(store.savedAt).n > startedAt[p]

\* C3 (fallback): a call whose fetch or aggregation raised an error returns
\* normally: the summary and records of the entry it read at its start when
\* that entry has a summary, the empty result otherwise.
C3_FailureFallsBack ==
    \A p \in Procs :
        (Ended(p) /\ failure[p] \in FetchErrors \cup {"aggregate"})
        => (/\ outcome[p] = "returned"
            /\ results[p] = IF EntryHasSummary(cached[p])
                            THEN EntryAsResult(cached[p])
                            ELSE EmptyResults)

\* the second page of a fetch failed and the call fell back on a stale entry
C3_Witness ==
    \E p \in Procs :
        /\ Ended(p)
        /\ failure[p] = "http"
        /\ requests[p] = 2
        /\ EntryHasSummary(cached[p])
        /\ ~EntryIsFresh(cached[p], startedAt[p])
        /\ results[p].scores.items # <<>>

\* C4 as stated (store unavailable on read): a call whose store is missing or
\* whose cache read failed still returns, as if there were no entry.
C4_ReadFailureNotFatal ==
    \A p \in Procs :
        (Ended(p) /\ (~localforage \/ failure[p] = "getItem"))
        => outcome[p] = "returned"

\* C5 (last page): after an envelope page with fewer than PageSize records and
\* a null next the fetcher has no request outstanding, and what it returns is
\* the records of all the pages it received, in the order it requested them.
C5_StopsAfterShortLastPage ==
    \A p \in Procs :
        (/\ lastPage[p].shape = "envelope"
         /\ lastPage[p].count < PageSize
         /\ lastPage[p].nextNull)
        => (/\ pc[p] # "fetch"
            /\ all[p] = served[p]
            /\ offset[p] + lastPage[p].count = Len(all[p]))

\* pages of PageSize, PageSize and 1 records: three requests, 2 * PageSize + 1 records
C5_Witness ==
    \E p \in Procs :
        /\ pc[p] = "setItem"
        /\ lastPage[p] = [shape |-> "envelope", count |-> 1, nextNull |-> TRUE]
        /\ requests[p] = 3
        /\ Len(all[p]) = 2 * PageSize + 1
        /\ results[p].scores = Arr(served[p])

\* C6 (no partial data): a call one of whose page requests met a failing
\* status returns none of the records it had fetched, and the store is what it
\* was when the call started.
C6_NoPartialData ==
    \A p \in Procs :
        lastPage[p].shape = "failed"
        => (/\ Ended(p)
            /\ outcome[p] = "returned"
            /\ \A i \in 1..Len(results[p].scores.items) :
                  results[p].scores.items[i].gen # gen[p]
            /\ store = storeAtCall[p])

\* the second page failed after a first page of records, with an entry in the store
C6_Witness ==
    \E p \in Procs :
        /\ Ended(p)
        /\ lastPage[p].shape = "failed"
        /\ requests[p] >= 2
        /\ Len(served[p]) >= 1
        /\ store # Null
        /\ results[p].scores.items # <<>>

\* C7 as stated (format error): a fetch that received a body that is neither
\* an array nor an object with an array-valued results field fails.
C7_MalformedBodyFails ==
    \A p \in Procs :
        malformed[p] => (Ended(p) /\ failure[p] \in {"format", "type"})

\* C8 (freshness boundary): on every day, a savedAt exactly three calendar
\* months earlier is fresh, one a day later is fresh, and one a day earlier is
\* not; three calendar months earlier is the same day of the month whenever
\* that month has such a day.
C8_FreshnessBoundary ==
    LET target == CalendarMonthsBefore(fToday, 3)
        saved == DateParse(fSavedAt)
        targetMonth == (MonthFromDay(fToday) - 3) % 12
        targetYear == YearFromDay(fToday) + ((MonthFromDay(fToday) - 3) \div 12)
    IN  /\ DateFromDay(fToday) <= DaysInMonth(targetYear, targetMonth)
           => /\ DateFromDay(target) = DateFromDay(fToday)
              /\ MonthFromDay(target) = targetMonth
              /\ YearFromDay(target) = targetYear
        /\ (fFresh # "none" /\ saved.t = "num")
           => /\ saved.n = target => fFresh = "yes"
              /\ saved.n = target + 1 => fFresh = "yes"
              /\ saved.n = target - 1 => fFresh = "no"

\* the check was asked of a savedAt exactly three calendar months back
C8_Witness ==
    /\ fFresh = "yes"
    /\ DateParse(fSavedAt) = Num(CalendarMonthsBefore(fToday, 3))
    /\ DateFromDay(fToday) = 15

\* C9 (last save wins): once both overlapping calls have ended, the store
\* holds exactly the entry of the save that completed last, whole: its summary
\* is the summary of its own records, which all come from one call.
C9_LastSaveWins ==
    (\A p \in Procs : Ended(p))
    => (/\ store = lastSaved
        /\ store # Null
           => /\ store.summary = computeSummary(store.scores.items)
              /\ \A i, j \in 1..Len(store.scores.items) :
                    store.scores.items[i].gen = store.scores.items[j].gen
              /\ DateParse(store.savedAt).t = "num")

\* both calls saved; the save that completed last had been started first
C9_Witness ==
    /\ \A p \in Procs : Ended(p) /\ failure[p] = "none" /\ pending[p] # Null
    /\ \E p, q \in Procs :
          /\ store = pending[p]
          /\ store.scores.items # <<>>
          /\ pending[q].scores.items # <<>>
          /\ DateParse(pending[p].savedAt).n < DateParse(pending[q].savedAt).n

\* C10 (wholesale): what a call returns is the summary and records of the
\* entry it read, or the summary and records of its own fetch, or the empty
\* result; never a summary of one with the records of the other.
C10_ResultFromOneOrigin ==
    \A p \in Procs :
        (Ended(p) /\ outcome[p] = "returned")
        => \/ EntryHasSummary(cached[p]) /\ results[p] = EntryAsResult(cached[p])
           \/ requests[p] >= 1 /\ results[p] = FetchAsResult(p)
           \/ results[p] = EmptyResults

\* the cache write failed after a fetch while a stale entry was at hand
C10_Witness ==
    \E p \in Procs :
        /\ Ended(p)
        /\ failure[p] = "setItem"
        /\ EntryHasSummary(cached[p])
        /\ served[p] # <<>>
        /\ results[p] = EntryAsResult(cached[p])

\* C11 as stated (termination in one of three outcomes): a call of
\* loadScores() that has ended has returned a result to its caller, and that
\* result is the cached entry (cache hit), the fetched records with their
\* summary (fetch success), or the catch block's fallback (fetch failure).
C11_EndsInOneOfThreeOutcomes ==
    \A p \in Procs :
        Ended(p)
        => /\ outcome[p] = "returned"
           /\ \/ requests[p] = 0 /\ failure[p] = "none"
              \/ requests[p] >= 1 /\ failure[p] = "none"
              \/ failure[p] \in FetchErrors \cup {"aggregate", "setItem"}

\* C12 (no automatic retry): in every step, the offsets a call has requested
\* start at 0 and are strictly increasing (the fetcher starts once, at offset
\* 0, and requests no offset twice), and a call one of whose page requests
\* has failed issues no further request.
C12_NoAutomaticRetry ==
    [][\A p \in Procs :
          /\ Len(asked'[p]) = requests'[p]
          /\ \A i \in 1..Len(asked'[p]) :
                /\ (i = 1) <=> (asked'[p][i] = 0)
                /\ \A j \in 1..(i - 1) : asked'[p][j] < asked'[p][i]
          /\ PageRequestFailed(p)' => Ended(p)'
          /\ (PageRequestFailed(p) /\ pc'[p] # "idle") => asked'[p] = asked[p]]_vars

\* a call whose third request failed: it asked for offsets 0, 2 and 4 and ended
C12_Witness ==
    \E p \in Procs :
        /\ Ended(p)
        /\ PageRequestFailed(p)
        /\ asked[p] = <<0, PageSize, 2 * PageSize>>

\* C13 (cache round-trip): when saveScoreSummary(X) is called, the entry it
\* hands to the store carries X's summary and records and a savedAt that reads
\* back as a time no earlier than the call; and when the save completes,
\* getStoredScoreSummary() gives exactly that entry, with nothing left of the
\* entry stored before.
C13_CacheRoundTrip ==
    [][\A p \in Procs :
          /\ (pc[p] = "fetch" /\ pc'[p] = "setItem")
             => /\ pending'[p].summary = results'[p].summary
                /\ pending'[p].scores = results'[p].scores
                /\ DateParse(pending'[p].savedAt).t = "num"
                /\ DateParse(pending'[p].savedAt).n >= now
          /\ (pc[p] = "setItem" /\ pc'[p] = "done" /\ failure'[p] = "none")
             => getStoredScoreSummary(localforage', store')
                    = [t |-> "entry",
                       savedAt |-> pending[p].savedAt,
                       summary |-> results[p].summary,
                       scores |-> results[p].scores]]_vars

\* a save that replaced an older entry holding other records
C13_Witness ==
    \E p \in Procs :
        /\ Ended(p)
        /\ failure[p] = "none"
        /\ requests[p] >= 1
        /\ storeAtCall[p] # Null
        /\ store # storeAtCall[p]
        /\ store.scores.items # <<>>
        /\ storeAtCall[p].scores.items # <<>>
        /\ getStoredScoreSummary(localforage, store).scores = results[p].scores

\* C14 as stated (tables sorted by count): in every summary an aggregator
\* returns, topTraits and releaseYears (score summary) and categories (trait
\* summary) are in non-increasing order of count.
C14_TablesSortedByCount ==
    /\ ScoresSummarized
          => /\ CountsNonIncreasing(aOutput.value.topTraits)
             /\ CountsNonIncreasing(aOutput.value.releaseYears)
    /\ TraitsSummarized => CountsNonIncreasing(aOutput.value.categories)

\* C15 as stated (untruncated table): the trait table of every score summary
\* has one entry for every distinct trait_reported value of the input: its
\* length is uniqueTraits, and every trait name a record carries has an entry.
C15_FullTraitTable ==
    ScoresSummarized
        => /\ Len(aOutput.value.topTraits) = aOutput.value.uniqueTraits
           /\ \A v \in TraitValues(aInput) :
                 v.t = "str"
                    => \E k \in 1..Len(aOutput.value.topTraits) :
                          aOutput.value.topTraits[k][1] = v

\* C16 as stated (counts sum to contributions): the counts of the trait table
\* of a score summary sum to the number of score records, and the counts of
\* the categories table of a trait summary sum to the number of categories the
\* trait records list, a record listing none counting once.
C16_CountsSumToContributions ==
    /\ ScoresSummarized => SumOfCounts(aOutput.value.topTraits) = Len(aInput)
    /\ TraitsSummarized => SumOfCounts(aOutput.value.categories) = Contributions(aInput)

\* C17 as stated (non-numeric values excluded): min, max and mean of every
\* score summary are those of the numeric variants_number values alone; a
\* record whose variants_number is absent, null, empty or not a number adds
\* nothing, in particular no 0.
C17_NonNumericExcluded ==
    ScoresSummarized
        => /\ aOutput.value.variants.min = Least(NumericValues(aInput))
           /\ aOutput.value.variants.max = Greatest(NumericValues(aInput))
           /\ aOutput.value.variants.mean = Average(NumericValues(aInput))

\* C18 as stated (empty distribution): when no record of the input has a
\* numeric variants_number, computeSummary returns a summary whose min, max,
\* mean and median are all null, and totalScores is 0 for the empty input.
C18_EmptyDistributionIsNull ==
    (aKind = "scores" /\ aOutput # NoOutput /\ NumericValues(aInput) = <<>>
        /\ \A i \in 1..Len(aInput) :
               IsNullish(aInput[i].date_release) \/ aInput[i].date_release.t = "str")
        => /\ aOutput.t = "summary"
           /\ aOutput.value.variants =
                 [min |-> RNull, max |-> RNull, mean |-> RNull, median |-> RNull]
           /\ aInput = <<>> => aOutput.value.totalScores = 0

\* C19 (median): the list computeSummary hands to quantile is in ascending
\* order, and the median of the summary is the middle element of that list
\* when its length is odd, the mean of its two central elements when even, and
\* null when it is empty; quantile of loadPgs.js gives the same.
C19_MedianIsR7 ==
    ScoresSummarized
        => LET sorted == SortAscending(FiniteVariants(aInput))
           IN  /\ IsAscending(sorted)
               /\ aOutput.value.variants.median = MedianOf(sorted)
               /\ quantileLoadPgs(sorted, 1, 2) = MedianOf(sorted)

\* the values 4, 3, 2, 1 were summarised: the median of [1, 2, 3, 4] is 2.5
C19_Witness ==
    /\ ScoresSummarized
    /\ aInput = TraitRun(4)
    /\ SortAscending(FiniteVariants(aInput)) = <<1, 2, 3, 4>>
    /\ aOutput.value.variants.median = Rat(5, 2)

\* C20 as stated (sentinel only for absence): every entry of the trait table
\* of a score summary counts the records whose trait_reported is that value,
\* the entry "NR" counting the records without the field (and those carrying
\* the text "NR"); a record whose field is present, be it null, empty, 0 or
\* false, is counted under that value.  Likewise every entry of the categories
\* table counts the listings of that category, "NR" the records listing none.
C20_SentinelOnlyForAbsence ==
    /\ ScoresSummarized
          => \A k \in 1..Len(aOutput.value.topTraits) :
                aOutput.value.topTraits[k][2]
                    = RecordsUnder(aOutput.value.topTraits[k][1], aInput)
    /\ TraitsSummarized
          => \A k \in 1..Len(aOutput.value.categories) :
                aOutput.value.categories[k][2]
                    = CategoriesUnder(aOutput.value.categories[k][1], aInput)

\* C21 as stated (order independence): when computeSummary has been applied
\* to a collection and to a reordering of it, either both calls threw or both
\* returned, and the two summaries have the same totals, the same numeric
\* distribution and frequency tables with the same entries.
C21_OrderIndependent ==
    (aOutput # NoOutput /\ aPermuted # NoOutput)
        => /\ aOutput.t = aPermuted.output.t
           /\ ScoresSummarized
                 => LET x == aOutput.value
                        y == aPermuted.output.value
                    IN  /\ x.totalScores = y.totalScores
                        /\ x.uniqueTraits = y.uniqueTraits
                        /\ x.variants = y.variants
                        /\ Entries(x.topTraits) = Entries(y.topTraits)
                        /\ Entries(x.releaseYears) = Entries(y.releaseYears)
           /\ TraitsSummarized
                 => LET x == aOutput.value
                        y == aPermuted.output.value
                    IN  /\ x.totaltraits = y.totaltraits
                        /\ x.totalCategories = y.totalCategories
                        /\ Entries(x.categories) = Entries(y.categories)

\* C22 (sequential pages): while a request of a fetch is outstanding, the
\* first offset the fetch asked for is 0, the offset of the outstanding request
\* (the last one asked) is the number of records accumulated from the pages
\* before it, and the records accumulated are those the remote holds at
\* positions 1, 2, 3, ... in order, none skipped and none twice.
C22_SequentialPages ==
    \A p \in Procs :
        pc[p] = "fetch"
        => /\ Len(asked[p]) = requests[p]
           /\ Len(asked[p]) >= 1
           /\ asked[p][1] = 0
           /\ asked[p][Len(asked[p])] = Len(all[p])
           /\ offset[p] = Len(all[p])
           /\ all[p] = served[p]
           /\ \A j \in 1..Len(all[p]) : all[p][j].id = j

\* the third request of a fetch is outstanding after a full and a short page
C22_Witness ==
    \E p \in Procs :
        /\ pc[p] = "fetch"
        /\ asked[p] = <<0, PageSize, PageSize + 1>>
        /\ Len(all[p]) = PageSize + 1

\* C23 as stated (soft write failure): a call whose fetch and aggregation
\* succeeded and whose cache write failed has returned, and its result is the
\* records it fetched with the summary computed from them, whatever the store
\* held before.
C23_WriteFailureIsSoft ==
    \A p \in Procs :
        (Ended(p) /\ failure[p] = "setItem")
        => /\ outcome[p] = "returned"
           /\ results[p] = FetchAsResult(p)

\* C25 as stated (uniform stop condition): after a page of more than zero and
\* fewer than pageSize records with no next-page indicator, be its body a bare
\* array or an envelope whose next is null or absent, the fetch has no request
\* outstanding.
C25_ShortPageStopsBothShapes ==
    \A p \in Procs :
        (/\ lastPage[p].shape \in {"array", "envelope"}
         /\ lastPage[p].count > 0
         /\ lastPage[p].count < PageSize
         /\ lastPage[p].shape = "envelope" => lastPage[p].nextNull)
        => pc[p] # "fetch"

\* C28 as stated (summary matches records): every result loadScores() returns
\* with a summary has as many score records as the summary's totalScores says,
\* also when the summary-only loadStats() has written the key in between.
C28_TotalMatchesRecords ==
    \A p \in Procs :
        (Ended(p) /\ outcome[p] = "returned" /\ results[p].summary # Null)
        => results[p].summary.totalScores = Len(results[p].scores.items)

\* C24 as stated (fallback notice): when loadStats() has finished a run whose
\* fetch failed and in which a cached summary was used, the status it leaves
\* is the local-cache fallback notice; and the status it leaves is the live
\* one only when the summary shown was computed from a fetch that succeeded
\* in that run.  Stated for runs within one day, so that the cache entry is
\* judged at the same date by loadScores() and by loadStats().
C24_FallbackShownWithNotice ==
    (sPc = "done" /\ Ended("a") /\ now = startedAt["a"])
        => /\ (failure["a"] \in FetchErrors /\ results["a"].summary # Null)
                => sourceStatus = StatusFallback
           /\ sourceStatus = StatusLive
                => /\ failure["a"] \notin FetchErrors
                   /\ requests["a"] >= 1
                   /\ results["a"] = FetchAsResult("a")


\* the ids of the records a default-options fetch returned, in order
ReturnedIds == [j \in 1..Len(dAll) |-> dAll[j].id]

\* C26 as stated (every fetcher complete): a fetcher called with its default
\* options against a remote serving a fixed collection by limit and offset
\* returns every record of the collection exactly once, whatever its size.
C26_DefaultsReturnWholeCollection ==
    dPc = "returned"
        => /\ Len(dAll) = collection
           /\ \A i \in 1..collection : \E j \in 1..Len(dAll) : ReturnedIds[j] = i


\* C27 as stated (staleness is permanent): for a fixed savedAt, once
\* isCacheWithinMonths(savedAt, 3) has answered false, it answers false at
\* every later time.
C27_StalenessPermanent ==
    [][(fFresh = "no" /\ fFresh' # "none") => fFresh' = "no"]_vars

=============================================================================
